---- MODULE Spec2Model ----
(***************************************************************************)
(* A model of the graph bookkeeping scripts: the global ID allocator and   *)
(* triple builder (utils/kge.py), the embedding-dataset exporter           *)
(* (utils/hake_dataset.py), the RDF exporter (create_rdf_graph.py) and the *)
(* name normalizer (utils/utils.py).                                       *)
(*                                                                         *)
(* Python values are modelled as follows.  A dict is a function; a dict    *)
(* that is iterated (a name -> local_id map) is the sequence of its items  *)
(* <<key, value>> in insertion order.  A text is a sequence of one-char    *)
(* strings where its characters matter and a string where only equality    *)
(* does.  A call that may raise returns [raised |-> "<exception>" or       *)
(* "no", value |-> ...].                                                   *)
(***************************************************************************)
EXTENDS Integers, Sequences, FiniteSets, TLC

VARIABLES
    pc,                 \* the step of the run that was taken last
    raised,             \* the exception that step ended with, "no" if none
    entity_id_maps,     \* build_global_id_map: list of name -> local_id maps
    entity_types,       \* build_global_id_map: list of type names
    global_id_map,      \* {entity_type: {local_id: global_id}}
    type_map,           \* {global_id: entity_type}
    offsets,            \* {entity_type: offset_start}
    edge_indices_list,  \* build_global_triples: list of relation descriptors
    global_triples,     \* list of (global_head, relation, global_tail)
    edge_dict,          \* build_hetero_graph: (head_type, r, tail_type) -> pairs
    data,               \* build_hetero_graph: the edge_index of each edge type
    id_mapping_dir,     \* the JSON files the exporters read their maps from
    edge_index_dir,     \* the edge tensors and global_triples.json
    hake_triples,       \* make_hake_triples: its return value
    graph,              \* the RDF graph: a set of statements
    count,              \* add_edges_from_tensor: its return value
    triples,            \* make_hake_dataset: list of (head, relation, tail) names
    out_dir,            \* make_hake_dataset: the files written, as lists of lines
    arr,                \* the cell value given to a name-extraction helper
    results             \* the list that helper returned

allocIn == <<entity_id_maps, entity_types>>
allocOut == <<global_id_map, type_map, offsets>>
tripleOut == <<global_triples, edge_dict, data>>
files == <<id_mapping_dir, edge_index_dir>>
exportOut == <<hake_triples, graph, count>>
datasetVars == <<triples, out_dir>>
nameVars == <<arr, results>>

vars == <<pc, raised, allocIn, allocOut, edge_indices_list, tripleOut, files,
          exportOut, datasetVars, nameVars>>

(***************************************************************************)
(* Bounds of the model.                                                    *)
(***************************************************************************)
MaxLocalId == 2
MaxRels == 2
MaxEdges == 3
MaxTriples == 3
MaxRecords == 2

\* Entity types given to the allocator ("exchange" has no id-to-name table in
\* make_hake_triples).
Types == {"company", "stock_symbol", "exchange"}

\* Entity names, in the order the upstream mapping files list them.
NamePool == <<"acme", "beta">>

(***************************************************************************)
(* Python's dict, str(int), int(str) and json.dump / json.load.            *)
(***************************************************************************)
EmptyDict == [k \in {} |-> k]

\* Python's None, and a value that is not None.
None == [none |-> TRUE, value |-> <<>>]
Some(v) == [none |-> FALSE, value |-> v]

Put(d, k, v) == [x \in DOMAIN d \cup {k} |-> IF x = k THEN v ELSE d[x]]

DigitChars == <<"0", "1", "2", "3", "4", "5", "6", "7", "8", "9">>

RECURSIVE str(_)
str(n) ==
    IF n < 10 THEN <<DigitChars[n + 1]>>
    ELSE str(n \div 10) \o <<DigitChars[(n % 10) + 1]>>

DigitVal(c) == CHOOSE d \in 0..9 : DigitChars[d + 1] = c

RECURSIVE int(_)
int(s) ==
    IF Len(s) = 1 THEN DigitVal(s[1])
    ELSE 10 * int(SubSeq(s, 1, Len(s) - 1)) + DigitVal(s[Len(s)])

\* A dict key that is an int, and one that is a str: never equal.
PyInt(n) == <<"int", n>>
PyStr(s) == <<"str", s>>

\* dict(items): later items overwrite earlier ones.
RECURSIVE DictOf(_)
DictOf(items) ==
    IF items = <<>> THEN EmptyDict
    ELSE LET last == items[Len(items)]
         IN Put(DictOf(SubSeq(items, 1, Len(items) - 1)), last[1], last[2])

(***************************************************************************)
(* build_global_id_map                                                     *)
(***************************************************************************)
GlobalIdNoLocal(current_offset, local_id) == current_offset

GlobalId(current_offset, local_id) == current_offset + local_id

NextOffsetByOne(current_offset, local_map) == current_offset + 1

\* A slip: the offset advanced past the largest local ID, not by the count.
RECURSIVE MaxLocal(_)
MaxLocal(local_map) ==
    IF local_map = <<>> THEN -1
    ELSE LET rest == MaxLocal(Tail(local_map))
         IN IF Head(local_map)[2] > rest THEN Head(local_map)[2] ELSE rest

NextOffsetPastMax(current_offset, local_map) ==
    current_offset + MaxLocal(local_map) + 1

NextOffset(current_offset, local_map) == current_offset + Len(local_map)

\* for name, local_id in local_map.items(): ...
RECURSIVE AssignLocalIds(_, _, _, _)
AssignLocalIds(acc, items, entity_type, current_offset) ==
    IF items = <<>> THEN acc
    ELSE LET local_id == Head(items)[2]
             global_id == GlobalId(current_offset, local_id)
         IN AssignLocalIds(
                [acc EXCEPT
                    !.global_id_map = Put(@, entity_type,
                                          Put(@[entity_type], local_id, global_id)),
                    !.type_map = Put(@, PyInt(global_id), entity_type)],
                Tail(items), entity_type, current_offset)

\* for local_map, entity_type in zip(entity_id_maps, entity_types): ...
RECURSIVE AllocateTypes(_, _, _, _)
AllocateTypes(acc, maps, types, current_offset) ==
    IF maps = <<>> \/ types = <<>> THEN acc
    ELSE LET local_map == Head(maps)
             entity_type == Head(types)
             started == [acc EXCEPT
                            !.offsets = Put(@, entity_type, current_offset),
                            !.global_id_map = Put(@, entity_type, EmptyDict)]
         IN AllocateTypes(
                AssignLocalIds(started, local_map, entity_type, current_offset),
                Tail(maps), Tail(types), NextOffset(current_offset, local_map))

build_global_id_map(maps, types) ==
    AllocateTypes([global_id_map |-> EmptyDict, type_map |-> EmptyDict,
                   offsets |-> EmptyDict], maps, types, 0)

(***************************************************************************)
(* json.dump of the allocator's maps, as the files make_hake_triples loads: *)
(* a JSON object's keys are strings, so every int key k is written str(k).  *)
(***************************************************************************)
JsonTypeMap(tm) ==
    [k \in {PyStr(str(key[2])) : key \in DOMAIN tm} |-> tm[PyInt(int(k[2]))]]

JsonGlobalId(gim) ==
    [t \in DOMAIN gim |->
        [k \in {str(l) : l \in DOMAIN gim[t]} |-> gim[t][int(k)]]]

(***************************************************************************)
(* make_hake_triples                                                       *)
(***************************************************************************)
\* The entity types make_hake_triples builds an id-to-name table for.
HakeTypes == {"company", "stock_symbol", "industry", "sector", "institution",
              "fund", "fund_symbol"}

\* The entity types a <type>2id.json mapping file exists for.
FileTypes == HakeTypes \cup {"exchange", "officer"}

\* {v: k for k, v in inner_d.items()}; the inner dicts are local_id -> global_id.
InvertInner(inner_d) ==
    [v \in {inner_d[k] : k \in DOMAIN inner_d} |->
        CHOOSE k \in DOMAIN inner_d : inner_d[k] = v]

invert_nested_dict(nested_dict) ==
    [outer_k \in DOMAIN nested_dict |-> InvertInner(nested_dict[outer_k])]

\* A slip: the position of an item taken for its local ID.
InvertDictByPosition(dict_) ==
    DictOf([i \in 1..Len(dict_) |-> <<i - 1, dict_[i][1]>>])

\* {v: k for k, v in dict_.items()}: a later item overwrites an earlier one.
invert_dict(dict_) ==
    DictOf([i \in 1..Len(dict_) |-> <<dict_[i][2], dict_[i][1]>>])

id_dict_map(name2id) == [t \in HakeTypes |-> invert_dict(name2id[t].value)]

\* global_type[str(h)]
HasNodeType(global_type, h) == PyStr(str(h)) \in DOMAIN global_type
NodeType(global_type, h) == global_type[PyStr(str(h))]

\* local_id[h_type_][h]
HasNodeLocal(local_id, type_, h) ==
    type_ \in DOMAIN local_id /\ h \in DOMAIN local_id[type_]
NodeLocal(local_id, type_, h) == local_id[type_][h]

\* id_dict_map[h_type_][int(h_local_)]
HasNodeName(names, type_, local_) ==
    type_ \in DOMAIN names /\ int(local_) \in DOMAIN names[type_]
NodeName(names, type_, local_) == names[type_][int(local_)]

(***************************************************************************)
(* Text: a sequence of one-character strings.                              *)
(***************************************************************************)
\* The printable ASCII characters from " " (code 32) to "_" (code 95) ...
AsciiChars == <<
    " ", "!", "\"", "#", "$", "%", "&", "'", "(", ")", "*", "+", ",", "-", ".", "/",
    "0", "1", "2", "3", "4", "5", "6", "7", "8", "9", ":", ";", "<", "=", ">", "?",
    "@", "A", "B", "C", "D", "E", "F", "G", "H", "I", "J", "K", "L", "M", "N", "O",
    "P", "Q", "R", "S", "T", "U", "V", "W", "X", "Y", "Z", "[", "\\", "]", "^", "_" >>

\* ... and from "a" (code 97) to "~" (code 126); the grave accent (code 96) is
\* left out.
AsciiLetters == <<
    "a", "b", "c", "d", "e", "f", "g", "h", "i", "j", "k", "l", "m", "n", "o",
    "p", "q", "r", "s", "t", "u", "v", "w", "x", "y", "z", "{", "|", "}", "~" >>

CodePoints ==
    [c \in {AsciiChars[i] : i \in 1..Len(AsciiChars)} \cup
            {AsciiLetters[i] : i \in 1..Len(AsciiLetters)} |->
        IF \E i \in 1..Len(AsciiChars) : AsciiChars[i] = c
        THEN 31 + (CHOOSE i \in 1..Len(AsciiChars) : AsciiChars[i] = c)
        ELSE 96 + (CHOOSE i \in 1..Len(AsciiLetters) : AsciiLetters[i] = c)]

ord(c) == CodePoints[c]

chr(n) == IF n <= 95 THEN AsciiChars[n - 31] ELSE AsciiLetters[n - 96]

IsUpper(c) == ord(c) >= ord("A") /\ ord(c) <= ord("Z")
IsLower(c) == ord(c) >= ord("a") /\ ord(c) <= ord("z")
IsDigit(c) == ord(c) >= ord("0") /\ ord(c) <= ord("9")

\* str.lower()
lower(s) ==
    [i \in 1..Len(s) |-> IF IsUpper(s[i]) THEN chr(ord(s[i]) + 32) ELSE s[i]]

\* str.strip(): the white space at both ends removed.
IsSpace(c) == c = " "

RECURSIVE lstrip(_)
lstrip(s) == IF s # <<>> /\ IsSpace(Head(s)) THEN lstrip(Tail(s)) ELSE s

RECURSIVE rstrip(_)
rstrip(s) ==
    IF s # <<>> /\ IsSpace(s[Len(s)]) THEN rstrip(SubSeq(s, 1, Len(s) - 1)) ELSE s

strip(s) == rstrip(lstrip(s))

\* a < b for two texts: by code point, a proper prefix first.
RECURSIVE TextLess(_, _)
TextLess(a, b) ==
    IF b = <<>> THEN FALSE
    ELSE IF a = <<>> THEN TRUE
    ELSE IF Head(a) # Head(b) THEN ord(Head(a)) < ord(Head(b))
    ELSE TextLess(Tail(a), Tail(b))

HexChars == <<"0", "1", "2", "3", "4", "5", "6", "7", "8", "9",
              "A", "B", "C", "D", "E", "F">>

\* urllib.parse.quote(name, safe='_-'): letters, digits and "_.-~" are kept,
\* any other character becomes "%" and the two hex digits of its code.
QuoteChar(c) ==
    IF IsUpper(c) \/ IsLower(c) \/ IsDigit(c) \/ c \in {"_", ".", "-", "~"}
    THEN <<c>>
    ELSE <<"%", HexChars[(ord(c) \div 16) + 1], HexChars[(ord(c) % 16) + 1]>>

RECURSIVE quote(_)
quote(s) == IF s = <<>> THEN <<>> ELSE QuoteChar(Head(s)) \o quote(Tail(s))

(***************************************************************************)
(* build_global_triples                                                    *)
(***************************************************************************)
Returned(v) == [raised |-> "no", value |-> v]
Raised(e) == [raised |-> e, value |-> <<>>]

\* [entity2global[type_][x.item()] for x in row]
GlobalsOf(entity2global, type_, row) ==
    IF \E i \in 1..Len(row) :
           \/ type_ \notin DOMAIN entity2global
           \/ row[i] \notin DOMAIN entity2global[type_]
    THEN Raised("KeyError")
    ELSE Returned([i \in 1..Len(row) |-> entity2global[type_][row[i]]])

Min(a, b) == IF a <= b THEN a ELSE b

\* [(h, relation, t) for h, t in zip(h_global, t_global)]
RelTriples(h_global, relation, t_global) ==
    [i \in 1..Min(Len(h_global), Len(t_global)) |->
        <<h_global[i], relation, t_global[i]>>]

\* A slip: insert(0, ...) for extend.
ExtendFront(list, more) == more \o list

\* list.extend(more)
Extend(list, more) == list \o more

\* for rel in edge_indices_list: ...
RECURSIVE ConvertRelations(_, _, _)
ConvertRelations(acc, rels, entity2global) ==
    IF rels = <<>> THEN Returned(acc)
    ELSE LET rel == Head(rels)
             h_global == GlobalsOf(entity2global, rel.head_type, rel.edge_index[1])
             t_global == GlobalsOf(entity2global, rel.tail_type, rel.edge_index[2])
         IN IF h_global.raised # "no" THEN h_global
            ELSE IF t_global.raised # "no" THEN t_global
            ELSE ConvertRelations(
                     Extend(acc, RelTriples(h_global.value, rel.relation,
                                            t_global.value)),
                     Tail(rels), entity2global)

build_global_triples(rels, entity2global) ==
    ConvertRelations(<<>>, rels, entity2global)

(***************************************************************************)
(* build_hetero_graph                                                      *)
(***************************************************************************)
\* type_map[str(h)]: the key looked up is the string of the global ID.
TypeKey(g) == PyStr(str(g))

\* edge_dict[key].append(pair) on a defaultdict(list)
AppendTo(d, key, pair) ==
    Put(d, key, IF key \in DOMAIN d THEN Append(d[key], pair) ELSE <<pair>>)

\* for h, r, t in global_triples: ...
RECURSIVE GroupEdges(_, _, _)
GroupEdges(acc, trs, tm) ==
    IF trs = <<>> THEN Returned(acc)
    ELSE LET h == Head(trs)[1]
             r == Head(trs)[2]
             t == Head(trs)[3]
         IN IF TypeKey(h) \notin DOMAIN tm \/ TypeKey(t) \notin DOMAIN tm
            THEN Raised("KeyError")
            ELSE GroupEdges(AppendTo(acc, <<tm[TypeKey(h)], r, tm[TypeKey(t)]>>,
                                     <<h, t>>),
                            Tail(trs), tm)

\* torch.tensor(edges).t(): shape [2, num_edges]
EdgeIndexOf(edges) ==
    <<[i \in 1..Len(edges) |-> edges[i][1]], [i \in 1..Len(edges) |-> edges[i][2]]>>

build_hetero_graph(trs, tm) ==
    LET grouped == GroupEdges(EmptyDict, trs, tm)
    IN IF grouped.raised # "no"
       THEN [raised |-> grouped.raised, edge_dict |-> EmptyDict, data |-> EmptyDict]
       ELSE [raised |-> "no", edge_dict |-> grouped.value,
             data |-> [key \in DOMAIN grouped.value |->
                          EdgeIndexOf(grouped.value[key])]]

(***************************************************************************)
(* make_hake_triples: the whole function.                                  *)
(***************************************************************************)
RECURSIVE ResolveTriples(_, _, _, _, _)

\* A slip: the unresolvable triple skipped, as the RDF exporter skips an edge.
SkipTriple(acc, rest, global_type, local_id, names) ==
    ResolveTriples(acc, rest, global_type, local_id, names)

\* except KeyError: print(...); return
AbortRun(acc, rest, global_type, local_id, names) == Returned(None)

\* for (h, r, t) in global_triples: ...
ResolveTriples(acc, trs, global_type, local_id, names) ==
    IF trs = <<>> THEN Returned(Some(acc))
    ELSE LET h == Head(trs)[1]
             r == Head(trs)[2]
             t == Head(trs)[3]
         IN IF ~HasNodeType(global_type, h) \/ ~HasNodeType(global_type, t)
            THEN Raised("KeyError")
            ELSE LET h_type_ == NodeType(global_type, h)
                     t_type_ == NodeType(global_type, t)
                 IN IF \/ ~HasNodeLocal(local_id, h_type_, h)
                       \/ ~HasNodeLocal(local_id, t_type_, t)
                    THEN Raised("KeyError")
                    ELSE LET h_local_ == NodeLocal(local_id, h_type_, h)
                             t_local_ == NodeLocal(local_id, t_type_, t)
                         IN IF \/ ~HasNodeName(names, h_type_, h_local_)
                               \/ ~HasNodeName(names, t_type_, t_local_)
                            THEN AbortRun(acc, Tail(trs), global_type, local_id, names)
                            ELSE ResolveTriples(
                                     Append(acc, <<NodeName(names, h_type_, h_local_),
                                                   r,
                                                   NodeName(names, t_type_, t_local_)>>),
                                     Tail(trs), global_type, local_id, names)

\* The files are opened first: a missing one ends the call.
make_hake_triples(id_dir, edge_dir) ==
    IF \E t \in HakeTypes : id_dir.name2id[t].none
    THEN Raised("FileNotFoundError")
    ELSE ResolveTriples(<<>>, edge_dir.global_triples, id_dir.global_type_map,
                        invert_nested_dict(id_dir.global_id),
                        id_dict_map(id_dir.name2id))

(***************************************************************************)
(* create_rdf_graph                                                        *)
(***************************************************************************)
\* A URI is <<"uri", namespace, local part>>: the namespaces end in "/" and a
\* quoted local part holds no "/", so the pair decides the URI's text.
\* A literal is <<"literal", "", text>>.
GRAPH == "http://example.org/graph/"
COMPANY == "http://example.org/company/"
SYMBOL == "http://example.org/symbol/"
EXCHANGE == "http://example.org/exchange/"
INDUSTRY == "http://example.org/industry/"
SECTOR == "http://example.org/sector/"
OFFICER == "http://example.org/officer/"
INSTITUTION == "http://example.org/institution/"
RDFNS == "http://www.w3.org/1999/02/22-rdf-syntax-ns#"
RDFSNS == "http://www.w3.org/2000/01/rdf-schema#"

URIRef(namespace, local) == <<"uri", namespace, local>>
Literal(text) == <<"literal", "", text>>

HAS_SYMBOL == URIRef(GRAPH, <<"h", "a", "s", "S", "y", "m", "b", "o", "l">>)
RDF_type == URIRef(RDFNS, <<"t", "y", "p", "e">>)
RDFS_label == URIRef(RDFSNS, <<"l", "a", "b", "e", "l">>)

load_id_mapping(file) ==
    IF file.none THEN EmptyDict ELSE invert_dict(file.value)

create_uri(namespace, name) == URIRef(namespace, quote(name))

\* graph.add of the two statements of every entity of one type.
add_entity_nodes(g, namespace, id_mapping, entity_type) ==
    [graph |-> g \cup UNION {
                   { <<create_uri(namespace, id_mapping[entity_id]), RDF_type,
                       URIRef(GRAPH, entity_type)>>,
                     <<create_uri(namespace, id_mapping[entity_id]), RDFS_label,
                       Literal(id_mapping[entity_id])>> }
                   : entity_id \in DOMAIN id_mapping },
     count |-> Cardinality(DOMAIN id_mapping)]

\* The entity types main() adds nodes for: namespace, mapping file, class.
NodeTypes == <<
    <<COMPANY, "company", <<"C", "o", "m", "p", "a", "n", "y">>>>,
    <<SYMBOL, "stock_symbol", <<"S", "t", "o", "c", "k", "S", "y", "m", "b", "o", "l">>>>,
    <<EXCHANGE, "exchange", <<"E", "x", "c", "h", "a", "n", "g", "e">>>>,
    <<INDUSTRY, "industry", <<"I", "n", "d", "u", "s", "t", "r", "y">>>>,
    <<SECTOR, "sector", <<"S", "e", "c", "t", "o", "r">>>>,
    <<OFFICER, "officer", <<"O", "f", "f", "i", "c", "e", "r">>>>,
    <<INSTITUTION, "institution", <<"I", "n", "s", "t", "i", "t", "u", "t", "i", "o", "n">>>> >>

RECURSIVE AddAllNodes(_, _, _)
AddAllNodes(g, id_dir, k) ==
    IF k > Len(NodeTypes) THEN g
    ELSE AddAllNodes(
             add_entity_nodes(g, NodeTypes[k][1],
                              load_id_mapping(id_dir.name2id[NodeTypes[k][2]]),
                              NodeTypes[k][3]).graph,
             id_dir, k + 1)

\* A slip: the edge counted before its endpoints are looked up.
AddEdgeCountingAll(acc, src_id, dst_id, src_mapping, dst_mapping, src_namespace, dst_namespace, predicate) ==
    IF src_id \in DOMAIN src_mapping /\ dst_id \in DOMAIN dst_mapping
    THEN [graph |-> acc.graph \cup
                      { <<create_uri(src_namespace, src_mapping[src_id]), predicate,
                          create_uri(dst_namespace, dst_mapping[dst_id])>> },
          count |-> acc.count + 1]
    ELSE [acc EXCEPT !.count = @ + 1]

\* The body of the loop over zip(src_ids, dst_ids).
AddEdge(acc, src_id, dst_id, src_mapping, dst_mapping, src_namespace, dst_namespace, predicate) ==
    IF src_id \in DOMAIN src_mapping /\ dst_id \in DOMAIN dst_mapping
    THEN [graph |-> acc.graph \cup
                      { <<create_uri(src_namespace, src_mapping[src_id]), predicate,
                          create_uri(dst_namespace, dst_mapping[dst_id])>> },
          count |-> acc.count + 1]
    ELSE acc

RECURSIVE AddEdges(_, _, _, _, _, _, _, _)
AddEdges(acc, src_ids, dst_ids, src_mapping, dst_mapping, src_namespace, dst_namespace, predicate) ==
    IF src_ids = <<>> \/ dst_ids = <<>> THEN acc
    ELSE AddEdges(AddEdge(acc, Head(src_ids), Head(dst_ids), src_mapping,
                          dst_mapping, src_namespace, dst_namespace, predicate),
                  Tail(src_ids), Tail(dst_ids), src_mapping, dst_mapping,
                  src_namespace, dst_namespace, predicate)

add_edges_from_tensor(g, tensor_file, src_mapping, dst_mapping, src_namespace, dst_namespace, predicate) ==
    IF tensor_file.none THEN [graph |-> g, count |-> 0]
    ELSE AddEdges([graph |-> g, count |-> 0],
                  tensor_file.value[1], tensor_file.value[2],
                  src_mapping, dst_mapping, src_namespace, dst_namespace, predicate)

(***************************************************************************)
(* make_hake_dataset                                                       *)
(***************************************************************************)
\* sorted(list(a_set)) of texts.
RECURSIVE sorted(_)
sorted(S) ==
    IF S = {} THEN <<>>
    ELSE LET first == CHOOSE x \in S : \A y \in S \ {x} : TextLess(x, y)
         IN <<first>> \o sorted(S \ {first})

\* A slip: enumerate(..., start=1).
EnumerateFromOne(list) == [k \in 1..Len(list) |-> <<k, list[k]>>]

\* enumerate(list): the pairs (i, element), i from 0.
Enumerate(list) == [k \in 1..Len(list) |-> <<k - 1, list[k]>>]

TAB == "\t"

\* f"{eid}\t{entity}\n", without the line break that ends the line.
DictLine(id, name) == str(id) \o <<TAB>> \o name

\* f"{h}\t{r}\t{t}\n", without the line break that ends the line.
TrainLine(h, r, t) == h \o <<TAB>> \o r \o <<TAB>> \o t

make_hake_dataset(trs) ==
    LET entity_set == {trs[i][1] : i \in 1..Len(trs)} \cup {trs[i][3] : i \in 1..Len(trs)}
        relation_set == {trs[i][2] : i \in 1..Len(trs)}
        entity2id == Enumerate(sorted(entity_set))
        rel2id == Enumerate(sorted(relation_set))
    IN [entities_dict |->
            [k \in 1..Len(entity2id) |-> DictLine(entity2id[k][1], entity2id[k][2])],
        relations_dict |->
            [k \in 1..Len(rel2id) |-> DictLine(rel2id[k][1], rel2id[k][2])],
        train_txt |->
            [i \in 1..Len(trs) |-> TrainLine(trs[i][1], trs[i][2], trs[i][3])]]

(***************************************************************************)
(* Python values of a semi-structured cell: <<kind, val>>, and for a str what *)
(* ast.literal_eval makes of it (None: it raises).                         *)
(***************************************************************************)
Kind(v) == v[1]
Val(v) == v[2]
LiteralOf(v) == v[3]

PStr(text) == <<"str", text, None>>
PNone == <<"NoneType", <<>>>>
PInt(n) == <<"int", n>>
PNan == <<"float", "nan">>
PList(items) == <<"list", items>>
PArray(items) == <<"ndarray", items>>
PDict(d) == <<"dict", d>>
\* A stringified cell: its text is not spelled out, its parse is given.
PCell(parse) == <<"str", <<"[", ".", ".", ".", "]">>, parse>>

\* f"{value}"
Format(v) ==
    CASE Kind(v) = "str" -> Val(v)
      [] Kind(v) = "int" -> str(Val(v))
      [] Kind(v) = "NoneType" -> <<"N", "o", "n", "e">>
      [] OTHER -> <<"n", "a", "n">>

(***************************************************************************)
(* Text search and replacement.                                            *)
(***************************************************************************)
startswith(s, p) == Len(s) >= Len(p) /\ SubSeq(s, 1, Len(p)) = p

\* str.replace(old, new): every occurrence, left to right, not overlapping.
RECURSIVE replace(_, _, _)
replace(s, old, new) ==
    IF s = <<>> THEN <<>>
    ELSE IF startswith(s, old)
         THEN new \o replace(SubSeq(s, Len(old) + 1, Len(s)), old, new)
         ELSE <<Head(s)>> \o replace(Tail(s), old, new)

\* str.split(): the words between runs of white space.
RECURSIVE FirstWord(_)
FirstWord(s) ==
    IF s = <<>> \/ IsSpace(Head(s)) THEN <<>> ELSE <<Head(s)>> \o FirstWord(Tail(s))

RECURSIVE split(_)
split(s) ==
    LET t == lstrip(s)
    IN IF t = <<>> THEN <<>>
       ELSE <<FirstWord(t)>> \o split(SubSeq(t, Len(FirstWord(t)) + 1, Len(t)))

\* sep.join(words)
RECURSIVE join(_, _)
join(sep, words) ==
    IF words = <<>> THEN <<>>
    ELSE IF Len(words) = 1 THEN words[1]
    ELSE words[1] \o sep \o join(sep, Tail(words))

SelectWords(words, remove_words) == SelectSeq(words, LAMBDA w : w \notin remove_words)

(***************************************************************************)
(* clean_name, parse_list, after_first_hyphen and the extract_* helpers.   *)
(***************************************************************************)
\* TITLE_PREFIX_PATTERN: ^(mr\.?|ms\.?|mrs\.?|dr\.?|prof\.?)\s+, ignoring case.
Titles == << <<"m", "r">>, <<"m", "s">>, <<"m", "r", "s">>, <<"d", "r">>, <<"p", "r", "o", "f">> >>

\* The length of the match of one alternative at the start of s: the title,
\* a period or none, and the white space that follows; 0 if it does not match.
TitleMatch(s, title) ==
    IF ~startswith(lower(s), title) THEN 0
    ELSE LET afterTitle == SubSeq(s, Len(title) + 1, Len(s))
             dotted == afterTitle # <<>> /\ Head(afterTitle) = "."
             afterDot == IF dotted THEN Tail(afterTitle) ELSE afterTitle
         IN IF afterDot = <<>> \/ ~IsSpace(Head(afterDot)) THEN 0
            ELSE Len(s) - Len(lstrip(afterDot))

\* TITLE_PREFIX_PATTERN.sub("", name): the first alternative that matches.
RECURSIVE SubTitle(_, _)
SubTitle(s, k) ==
    IF k > Len(Titles) THEN s
    ELSE IF TitleMatch(s, Titles[k]) > 0
         THEN SubSeq(s, TitleMatch(s, Titles[k]) + 1, Len(s))
         ELSE SubTitle(s, k + 1)

clean_name(name) ==
    IF Kind(name) # "str" THEN name
    ELSE PStr(lower(strip(SubTitle(Val(name), 1))))

\* parse_list: a non-str is returned as it is; a str is cleaned and given to
\* ast.literal_eval, and None is returned when that raises.
parse_list(cell) ==
    IF Kind(cell) # "str" THEN cell
    ELSE IF LiteralOf(cell).none THEN PNone
    ELSE LiteralOf(cell).value

\* re.search(r'^([^-]*)-(.*)', text): the position of the first hyphen, 0 if none.
RECURSIVE FirstHyphen(_, _)
FirstHyphen(text, i) ==
    IF i > Len(text) THEN 0
    ELSE IF text[i] = "-" THEN i
    ELSE FirstHyphen(text, i + 1)

after_first_hyphen(text) ==
    LET at == FirstHyphen(text, 1)
        before == strip(SubSeq(text, 1, at - 1))
        after == strip(SubSeq(text, at + 1, Len(text)))
        remove_words == { <<"M", "a", "r", "k", "e", "t", "s">>, <<"T", "r", "u", "s", "t">>, <<"F", "u", "n", "d">>, <<"S", "t", "o", "c", "k">>, <<"F", "d", ".">>, <<"E", "q", "u", "i", "t", "y">> }
    IN IF at = 0 THEN text
       ELSE IF before = <<"B", "r", "i", "d", "g", "e", "w", "a", "y", " ", "F", "u", "n", "d", "s", ",", " ", "I", "n", "c", ".">>
            THEN <<"B", "r", "i", "d", "g", "e", "w", "a", "y", " ">> \o after
       ELSE IF before = <<"T", "I", "A", "A", "-", "C", "R", "E", "F", " ", "F", "u", "n", "d", "s">>
            THEN replace(after, <<"C", "R", "E", "F", " ", "F", "u", "n", "d", "s", "-">>, <<>>)
       ELSE IF before = <<"S", "P", "D", "R", " ", "S", "E", "R", "I", "E", "S", " ", "T", "R", "U", "S", "T">>
            THEN replace(after, <<"(", "R", ")">>, <<>>)
       ELSE IF before = <<"D", "F", "A", " ", "I", "N", "V", "E", "S", "T", "M", "E", "N", "T", " ", "D", "I", "M", "E", "N", "S", "I", "O", "N", "S", " ", "G", "R", "O", "U", "P", " ", "I", "N", "C">>
            THEN text
       ELSE IF startswith(after, <<"P", "r", "i", "c", "e", " ", "(", "T", ".", "R", "o", "w", "e", ")">>)
            THEN <<"T", ".", "R", "o", "w", "e", " ", "P", "r", "i", "c", "e", " ">> \o
                 strip(join(<<" ">>, SelectWords(split(after), remove_words)))
       ELSE after

IsListLike(v) == Kind(v) \in {"list", "ndarray"}
HasKey(o, key) == Kind(o) = "dict" /\ key \in DOMAIN Val(o)

\* for o in arr: ... of extract_officer_names
RECURSIVE OfficerLoop(_, _)
OfficerLoop(acc, items) ==
    IF items = <<>> THEN Returned(acc)
    ELSE LET o == Head(items)
         IN IF HasKey(o, "name")
            THEN LET cleaned == clean_name(Val(o)["name"])
                     yob == IF "yearBorn" \in DOMAIN Val(o) THEN Val(o)["yearBorn"] ELSE PNan
                 IN OfficerLoop(Append(acc, Format(cleaned) \o <<"|">> \o Format(yob)),
                                Tail(items))
            ELSE OfficerLoop(acc, Tail(items))

extract_officer_names(cell) ==
    IF IsListLike(cell) THEN OfficerLoop(<<>>, Val(cell)) ELSE Returned(<<>>)

\* for o in arr: ... of extract_institution_names
RECURSIVE InstitutionLoop(_, _)
InstitutionLoop(acc, items) ==
    IF items = <<>> THEN Returned(acc)
    ELSE LET o == Head(items)
         IN IF HasKey(o, "Holder")
            THEN LET inst == Val(o)["Holder"]
                 IN IF Kind(inst) # "str" THEN Raised("AttributeError")
                    ELSE InstitutionLoop(Append(acc, strip(lower(Val(inst)))), Tail(items))
            ELSE InstitutionLoop(acc, Tail(items))

extract_institution_names(cell) ==
    LET parsed == IF Kind(cell) = "str" THEN parse_list(cell) ELSE cell
    IN IF IsListLike(parsed) THEN InstitutionLoop(<<>>, Val(parsed)) ELSE Returned(<<>>)

\* for o in arr: ... of extract_mutualfund_names
RECURSIVE MutualfundLoop(_, _)
MutualfundLoop(acc, items) ==
    IF items = <<>> THEN Returned(acc)
    ELSE LET o == Head(items)
         IN IF HasKey(o, "Holder")
            THEN LET fund == Val(o)["Holder"]
                 IN IF Kind(fund) # "str" THEN Raised("TypeError")
                    ELSE MutualfundLoop(
                             Append(acc, strip(lower(after_first_hyphen(Val(fund))))),
                             Tail(items))
            ELSE MutualfundLoop(acc, Tail(items))

extract_mutualfund_names(cell) ==
    LET parsed == IF Kind(cell) = "str" THEN parse_list(cell) ELSE cell
    IN IF IsListLike(parsed) THEN MutualfundLoop(<<>>, Val(parsed)) ELSE Returned(<<>>)

(***************************************************************************)
(* The rule after_first_hyphen applies to a text.                          *)
(***************************************************************************)
\* The four prefixes the if-chain compares the text before the hyphen with.
HardCodedPrefixes == <<
    <<"B", "r", "i", "d", "g", "e", "w", "a", "y", " ", "F", "u", "n", "d", "s", ",", " ", "I", "n", "c", ".">>,
    <<"T", "I", "A", "A", "-", "C", "R", "E", "F", " ", "F", "u", "n", "d", "s">>,
    <<"S", "P", "D", "R", " ", "S", "E", "R", "I", "E", "S", " ", "T", "R", "U", "S", "T">>,
    <<"D", "F", "A", " ", "I", "N", "V", "E", "S", "T", "M", "E", "N", "T", " ", "D", "I", "M", "E", "N", "S", "I", "O", "N", "S", " ", "G", "R", "O", "U", "P", " ", "I", "N", "C">> >>

\* The branch of the if-chain that returns: 0 when the pattern does not match
\* (no hyphen), 1..4 for the prefix of that number, 5 for the
\* 'Price (T.Rowe)' branch, 6 for the final else.
AppliedRule(text) ==
    LET at == FirstHyphen(text, 1)
        before == strip(SubSeq(text, 1, at - 1))
        after == strip(SubSeq(text, at + 1, Len(text)))
    IN IF at = 0 THEN 0
       ELSE IF before = HardCodedPrefixes[1] THEN 1
       ELSE IF before = HardCodedPrefixes[2] THEN 2
       ELSE IF before = HardCodedPrefixes[3] THEN 3
       ELSE IF before = HardCodedPrefixes[4] THEN 4
       ELSE IF startswith(after, <<"P", "r", "i", "c", "e", " ", "(", "T", ".", "R", "o", "w", "e", ")">>) THEN 5
       ELSE 6

(***************************************************************************)
(* The inputs of a run.                                                    *)
(***************************************************************************)
\* A name -> local_id map: some names of the pool, in pool order, each with a
\* non-negative local ID.
LocalMaps ==
    { m \in UNION { [1..n -> (1..Len(NamePool)) \X (0..MaxLocalId)]
                       : n \in 0..Len(NamePool) } :
        \A i \in 1..(Len(m) - 1) : m[i][1] < m[i + 1][1] }

NamedItems(m) == [i \in 1..Len(m) |-> <<NamePool[m[i][1]], m[i][2]>>]

\* A list of distinct entity types.
TypeLists ==
    { t \in UNION { [1..n -> Types] : n \in 1..Cardinality(Types) } :
        \A i, j \in 1..Len(t) : i # j => t[i] # t[j] }

NoIdFiles == [global_type_map |-> EmptyDict, global_id |-> EmptyDict,
              name2id |-> [t \in FileTypes |-> None]]

NoEdgeFiles == [global_triples |-> <<>>, comp2sym |-> None]

NoOutFiles == [entities_dict |-> <<>>, relations_dict |-> <<>>, train_txt |-> <<>>]

AllocIdle ==
    /\ global_id_map = EmptyDict
    /\ type_map = EmptyDict
    /\ offsets = EmptyDict

TriplesIdle ==
    /\ global_triples = <<>>
    /\ edge_dict = EmptyDict
    /\ data = EmptyDict

FilesIdle ==
    /\ id_mapping_dir = NoIdFiles
    /\ edge_index_dir = NoEdgeFiles

ExportIdle ==
    /\ hake_triples = None
    /\ graph = {}
    /\ count = 0

DatasetIdle ==
    /\ triples = <<>>
    /\ out_dir = NoOutFiles

NamesIdle ==
    /\ arr = PNone
    /\ results = <<>>

(***************************************************************************)
(* The allocator run: any maps for any list of distinct types.             *)
(***************************************************************************)
Init ==
    /\ pc = "start"
    /\ raised = "no"
    /\ entity_types \in TypeLists
    /\ \E ms \in [1..Len(entity_types) -> LocalMaps] :
           entity_id_maps = [i \in 1..Len(entity_types) |-> NamedItems(ms[i])]
    /\ edge_indices_list = <<>>
    /\ AllocIdle
    /\ TriplesIdle
    /\ FilesIdle
    /\ ExportIdle
    /\ DatasetIdle
    /\ NamesIdle

BuildGlobalIdMap ==
    /\ pc = "start"
    /\ Len(entity_id_maps) = Len(entity_types)
    /\ LET r == build_global_id_map(entity_id_maps, entity_types)
       IN /\ global_id_map' = r.global_id_map
          /\ type_map' = r.type_map
          /\ offsets' = r.offsets
    /\ pc' = "allocated"
    /\ UNCHANGED <<raised, allocIn, edge_indices_list, tripleOut, files,
                   exportOut, datasetVars, nameVars>>

\* The maps of the run written to the mapping directory: global_type_map.json,
\* global_id.json and one <type>2id.json per entity type.
MapOfType(maps, types, t) ==
    IF \E i \in 1..Len(types) : types[i] = t
    THEN maps[CHOOSE i \in 1..Len(types) : types[i] = t]
    ELSE <<>>

DumpJson ==
    /\ pc = "allocated"
    /\ id_mapping_dir' =
           [global_type_map |-> JsonTypeMap(type_map),
            global_id |-> JsonGlobalId(global_id_map),
            name2id |-> [t \in FileTypes |->
                            Some(MapOfType(entity_id_maps, entity_types, t))]]
    /\ pc' = "dumped"
    /\ UNCHANGED <<raised, allocIn, allocOut, edge_indices_list, tripleOut,
                   edge_index_dir, exportOut, datasetVars, nameVars>>

Next == BuildGlobalIdMap \/ DumpJson

Spec == Init /\ [][Next]_vars

(***************************************************************************)
(* The triple builder run: relations over two dense entity types.          *)
(***************************************************************************)
\* The relation descriptors' (relation, head_type, tail_type).
RelationKinds ==
    { <<"hasSymbol", "company", "stock_symbol">>,
      <<"issuedBy", "stock_symbol", "company">> }

\* Local (head, tail) pairs of an edge tensor.
EdgePool == (0..1) \X (0..1)

\* An edge tensor of shape [2, num_edges] from paired (head, tail) local IDs.
TensorOf(pairs) ==
    <<[i \in 1..Len(pairs) |-> pairs[i][1]], [i \in 1..Len(pairs) |-> pairs[i][2]]>>

\* The descriptors made of the edges `all`, cut into Len(kinds) tensors after
\* cuts[1] <= cuts[2] <= ... edges.
Descriptors(all, kinds, cuts) ==
    [k \in 1..Len(kinds) |->
        LET from == IF k = 1 THEN 0 ELSE cuts[k - 1]
            to == IF k = Len(kinds) THEN Len(all) ELSE cuts[k]
        IN [relation |-> kinds[k][1], head_type |-> kinds[k][2],
            tail_type |-> kinds[k][3],
            edge_index |-> TensorOf(SubSeq(all, from + 1, to))]]

InitTriples ==
    /\ pc = "start"
    /\ raised = "no"
    /\ entity_types = <<"company", "stock_symbol">>
    /\ entity_id_maps \in
           { <<<<<<"acme", 0>>, <<"beta", 1>>>>, <<<<"acme", 0>>, <<"beta", 1>>>>>>,
             <<<<<<"acme", 1>>, <<"beta", 0>>>>, <<<<"acme", 0>>>>>> }
    /\ \E n \in 0..MaxEdges : \E all \in [1..n -> EdgePool] :
       \E k \in 0..MaxRels : \E kinds \in [1..k -> RelationKinds] :
       \E cuts \in [1..(k - 1) -> 0..n] :
           /\ \A i \in 1..(k - 2) : cuts[i] <= cuts[i + 1]
           /\ k = 0 => n = 0
           /\ edge_indices_list = Descriptors(all, kinds, cuts)
    /\ AllocIdle
    /\ TriplesIdle
    /\ FilesIdle
    /\ ExportIdle
    /\ DatasetIdle
    /\ NamesIdle

BuildGlobalTriples ==
    /\ pc = "allocated"
    /\ LET r == build_global_triples(edge_indices_list, global_id_map)
       IN /\ raised' = r.raised
          /\ global_triples' = r.value
    /\ pc' = "triples"
    /\ UNCHANGED <<allocIn, allocOut, edge_indices_list, edge_dict, data, files,
                   exportOut, datasetVars, nameVars>>

\* build_hetero_graph on the type_map build_global_id_map returned.
BuildHeteroGraph ==
    /\ pc = "triples"
    /\ raised = "no"
    /\ LET r == build_hetero_graph(global_triples, type_map)
       IN /\ raised' = r.raised
          /\ edge_dict' = r.edge_dict
          /\ data' = r.data
    /\ pc' = "hetero"
    /\ UNCHANGED <<allocIn, allocOut, edge_indices_list, global_triples, files,
                   exportOut, datasetVars, nameVars>>

\* build_hetero_graph on the type_map loaded back from global_type_map.json.
BuildHeteroGraphLoaded ==
    /\ pc = "triples"
    /\ raised = "no"
    /\ LET r == build_hetero_graph(global_triples, JsonTypeMap(type_map))
       IN /\ raised' = r.raised
          /\ edge_dict' = r.edge_dict
          /\ data' = r.data
    /\ pc' = "hetero_loaded"
    /\ UNCHANGED <<allocIn, allocOut, edge_indices_list, global_triples, files,
                   exportOut, datasetVars, nameVars>>

NextTriples ==
    \/ BuildGlobalIdMap
    \/ BuildGlobalTriples
    \/ BuildHeteroGraph
    \/ BuildHeteroGraphLoaded

SpecTriples == InitTriples /\ [][NextTriples]_vars

(***************************************************************************)
(* The export run: both exporters over the same directories.  The global   *)
(* files come from an allocator run over the full mappings; the mapping    *)
(* files found at export time may have lost entries, or be absent.         *)
(***************************************************************************)
CompanyNames == << <<"A", "c", "m", "e", " ", "C", "o">>, <<"B", "&", "B">> >>
SymbolNames == << <<"A", "C", "M", "E">>, <<"B", "B", "-", "A">> >>

\* The full name -> local_id map of a type: the i-th name has local ID i - 1.
FullMap(names) == [i \in 1..Len(names) |-> <<names[i], i - 1>>]

\* A mapping file: absent, or the full map with some of its items left out.
RECURSIVE SubSeqs(_)
SubSeqs(s) ==
    IF s = <<>> THEN {<<>>}
    ELSE LET rest == SubSeqs(Tail(s))
         IN rest \cup {<<Head(s)>> \o r : r \in rest}

MappingFiles(names) == {None} \cup {Some(m) : m \in SubSeqs(FullMap(names))}

InitExport ==
    /\ pc = "start"
    /\ raised = "no"
    /\ entity_types = <<"company", "stock_symbol">>
    /\ entity_id_maps = <<FullMap(CompanyNames), FullMap(SymbolNames)>>
    /\ \E n \in 0..MaxEdges : \E pairs \in [1..n -> EdgePool] :
       \E company2id \in MappingFiles(CompanyNames) :
       \E stocksymbol2id \in MappingFiles(SymbolNames) :
       \E tensor \in {None, Some(TensorOf(pairs))} :
           LET maps == build_global_id_map(entity_id_maps, entity_types)
               rels == << [relation |-> "hasSymbol", head_type |-> "company",
                           tail_type |-> "stock_symbol",
                           edge_index |-> TensorOf(pairs)] >>
           IN /\ edge_indices_list = rels
              /\ id_mapping_dir =
                     [global_type_map |-> JsonTypeMap(maps.type_map),
                      global_id |-> JsonGlobalId(maps.global_id_map),
                      name2id |-> [t \in FileTypes |->
                                      IF t = "company" THEN company2id
                                      ELSE IF t = "stock_symbol" THEN stocksymbol2id
                                      ELSE Some(<<>>)]]
              /\ edge_index_dir =
                     [global_triples |->
                          build_global_triples(rels, maps.global_id_map).value,
                      comp2sym |-> tensor]
    /\ AllocIdle
    /\ TriplesIdle
    /\ ExportIdle
    /\ DatasetIdle
    /\ NamesIdle

\* main(): the entity nodes of every type.
AddEntityNodes ==
    /\ pc = "start"
    /\ graph' = AddAllNodes(graph, id_mapping_dir, 1)
    /\ pc' = "nodes_added"
    /\ UNCHANGED <<raised, allocIn, allocOut, edge_indices_list, tripleOut, files,
                   hake_triples, count, datasetVars, nameVars>>

\* main(): company --hasSymbol--> stockSymbol
AddEdgesFromTensor ==
    /\ pc = "nodes_added"
    /\ LET r == add_edges_from_tensor(
                    graph, edge_index_dir.comp2sym,
                    load_id_mapping(id_mapping_dir.name2id["company"]),
                    load_id_mapping(id_mapping_dir.name2id["stock_symbol"]),
                    COMPANY, SYMBOL, HAS_SYMBOL)
       IN /\ graph' = r.graph
          /\ count' = r.count
    /\ pc' = "edges_added"
    /\ UNCHANGED <<raised, allocIn, allocOut, edge_indices_list, tripleOut, files,
                   hake_triples, datasetVars, nameVars>>

MakeHakeTriples ==
    /\ pc = "edges_added"
    /\ LET r == make_hake_triples(id_mapping_dir, edge_index_dir)
       IN /\ raised' = r.raised
          /\ hake_triples' = IF r.raised = "no" THEN r.value ELSE None
    /\ pc' = "exported"
    /\ UNCHANGED <<allocIn, allocOut, edge_indices_list, tripleOut, files,
                   graph, count, datasetVars, nameVars>>

NextExport == AddEntityNodes \/ AddEdgesFromTensor \/ MakeHakeTriples

SpecExport == InitExport /\ [][NextExport]_vars

(***************************************************************************)
(* The dataset run: any list of named triples.                             *)
(***************************************************************************)
EntityNames == { <<"A", "C", "M", "E">>, <<"a", "c", "m", "e">>, <<"a", "c">> }
RelationNames == { <<"h", "a", "s", "S", "y", "m", "b", "o", "l">>, <<"b", "e", "l", "o", "n", "g", "s", "T", "o">> }

InitDataset ==
    /\ pc = "start"
    /\ raised = "no"
    /\ \E n \in 0..MaxTriples :
           triples \in [1..n -> EntityNames \X RelationNames \X EntityNames]
    /\ out_dir = NoOutFiles
    /\ entity_types = <<>>
    /\ entity_id_maps = <<>>
    /\ edge_indices_list = <<>>
    /\ AllocIdle
    /\ TriplesIdle
    /\ FilesIdle
    /\ ExportIdle
    /\ NamesIdle

MakeHakeDataset ==
    /\ pc = "start"
    /\ out_dir' = make_hake_dataset(triples)
    /\ pc' = "dataset"
    /\ UNCHANGED <<raised, allocIn, allocOut, edge_indices_list, tripleOut, files,
                   exportOut, triples, nameVars>>

NextDataset == MakeHakeDataset

SpecDataset == InitDataset /\ [][NextDataset]_vars

(***************************************************************************)
(* The name-extraction run: one cell value given to one helper.            *)
(***************************************************************************)
HolderTexts == {
    <<"V", "a", "n", "g", "u", "a", "r", "d", " ", "G", "r", "o", "u", "p", " ", "I", "n", "c">>,
    <<"B", "r", "i", "d", "g", "e", "w", "a", "y", " ", "F", "u", "n", "d", "s", ",", " ", "I", "n", "c", ".", "-", "S", "m", "a", "l", "l", " ", "C", "a", "p", " ", "V", "a", "l", "u", "e">>,
    <<"T", "I", "A", "A", "-", "C", "R", "E", "F", " ", "F", "u", "n", "d", "s", "-", "G", "r", "o", "w", "t", "h">>,
    <<"S", "P", "D", "R", " ", "S", "E", "R", "I", "E", "S", " ", "T", "R", "U", "S", "T", "-", "S", "P", "D", "R", "(", "R", ")", " ", "S", "&", "P">>,
    <<"D", "F", "A", " ", "I", "N", "V", "E", "S", "T", "M", "E", "N", "T", " ", "D", "I", "M", "E", "N", "S", "I", "O", "N", "S", " ", "G", "R", "O", "U", "P", " ", "I", "N", "C", "-", "U", "S", " ", "C", "o", "r", "e">>,
    <<"P", "r", "i", "c", "e", " ", "(", "T", ".", "R", "o", "w", "e", ")">>,
    <<"A", "d", "v", "i", "s", "o", "r", "s", "-", "P", "r", "i", "c", "e", " ", "(", "T", ".", "R", "o", "w", "e", ")", " ", "G", "r", "o", "w", "t", "h", " ", "S", "t", "o", "c", "k", " ", "F", "u", "n", "d">> }

OfficerTexts == { <<"M", "r", ".", " ", "A">>, <<"D", "r", ".", " ", "J", "a", "n", "e", " ", "S", "m", "i", "t", "h">>, <<"M", "r", "s", " ", "M", "r", ".", " ", "X">> }

\* The records of a cell: well-formed ones, ones lacking the key, ones whose
\* value is not a string, and entries that are no mapping.
Records ==
    {PDict([Holder |-> PStr(t)]) : t \in HolderTexts}
    \cup {PDict([name |-> PStr(t), yearBorn |-> PInt(1960)]) : t \in OfficerTexts}
    \cup { PDict([name |-> PStr(<<"J", "o", "h", "n", " ", "D", "o", "e">>)]),
           PDict([foo |-> PStr(<<"b", "a", "r">>)]),
           PDict([Holder |-> PNone]),
           PDict([name |-> PNone]),
           PInt(7),
           PStr(<<"H", "o", "l", "d", "e", "r">>) }

RecordLists == UNION { [1..n -> Records] : n \in 0..MaxRecords }

Cells ==
    {PList(l) : l \in RecordLists}
    \cup {PArray(l) : l \in RecordLists}
    \cup {PCell(Some(PList(l))) : l \in RecordLists}
    \cup {PCell(None), PCell(Some(PInt(7))), PCell(Some(PDict([Holder |-> PNone]))),
          PNone, PInt(7), PNan}

InitNames ==
    /\ pc = "start"
    /\ raised = "no"
    /\ arr \in Cells
    /\ results = <<>>
    /\ entity_types = <<>>
    /\ entity_id_maps = <<>>
    /\ edge_indices_list = <<>>
    /\ AllocIdle
    /\ TriplesIdle
    /\ FilesIdle
    /\ ExportIdle
    /\ DatasetIdle

ExtractOfficerNames ==
    /\ pc = "start"
    /\ LET r == extract_officer_names(arr)
       IN raised' = r.raised /\ results' = r.value
    /\ pc' = "officer_names"
    /\ UNCHANGED <<allocIn, allocOut, edge_indices_list, tripleOut, files,
                   exportOut, datasetVars, arr>>

ExtractInstitutionNames ==
    /\ pc = "start"
    /\ LET r == extract_institution_names(arr)
       IN raised' = r.raised /\ results' = r.value
    /\ pc' = "institution_names"
    /\ UNCHANGED <<allocIn, allocOut, edge_indices_list, tripleOut, files,
                   exportOut, datasetVars, arr>>

ExtractMutualfundNames ==
    /\ pc = "start"
    /\ LET r == extract_mutualfund_names(arr)
       IN raised' = r.raised /\ results' = r.value
    /\ pc' = "mutualfund_names"
    /\ UNCHANGED <<allocIn, allocOut, edge_indices_list, tripleOut, files,
                   exportOut, datasetVars, arr>>

NextNames ==
    \/ ExtractOfficerNames
    \/ ExtractInstitutionNames
    \/ ExtractMutualfundNames

SpecNames == InitNames /\ [][NextNames]_vars

(***************************************************************************)
(* after_first_hyphen applied to one fund name.                            *)
(***************************************************************************)
Befores == {
    <<"B", "r", "i", "d", "g", "e", "w", "a", "y", " ", "F", "u", "n", "d", "s", ",", " ", "I", "n", "c", ".">>,
    <<"T", "I", "A", "A", "-", "C", "R", "E", "F", " ", "F", "u", "n", "d", "s">>,
    <<"S", "P", "D", "R", " ", "S", "E", "R", "I", "E", "S", " ", "T", "R", "U", "S", "T">>,
    <<"D", "F", "A", " ", "I", "N", "V", "E", "S", "T", "M", "E", "N", "T", " ", "D", "I", "M", "E", "N", "S", "I", "O", "N", "S", " ", "G", "R", "O", "U", "P", " ", "I", "N", "C">>,
    <<"V", "a", "n", "g", "u", "a", "r", "d">>,
    <<>>,
    <<" ", "S", "P", "D", "R", " ", "S", "E", "R", "I", "E", "S", " ", "T", "R", "U", "S", "T", " ">>,
    <<"T", "I", "A", "A">> }

Separators == { <<>>, <<"-">>, <<" ", "-", " ">> }

Suffixes == {
    <<"G", "r", "o", "w", "t", "h">>,
    <<"C", "R", "E", "F", " ", "F", "u", "n", "d", "s", "-", "G", "r", "o", "w", "t", "h">>,
    <<"S", "P", "D", "R", "(", "R", ")", " ", "S", "&", "P">>,
    <<"P", "r", "i", "c", "e", " ", "(", "T", ".", "R", "o", "w", "e", ")", " ", "G", "r", "o", "w", "t", "h", " ", "S", "t", "o", "c", "k", " ", "F", "u", "n", "d">>,
    <<>>,
    <<"U", "S", "-", "C", "o", "r", "e">> }

FundNames == {b \o s \o a : b \in Befores, s \in Separators, a \in Suffixes}

InitHyphen ==
    /\ pc = "start"
    /\ raised = "no"
    /\ arr \in {PStr(t) : t \in FundNames}
    /\ results = <<>>
    /\ entity_types = <<>>
    /\ entity_id_maps = <<>>
    /\ edge_indices_list = <<>>
    /\ AllocIdle
    /\ TriplesIdle
    /\ FilesIdle
    /\ ExportIdle
    /\ DatasetIdle

AfterFirstHyphen ==
    /\ pc = "start"
    /\ results' = <<after_first_hyphen(Val(arr))>>
    /\ pc' = "after_first_hyphen"
    /\ UNCHANGED <<raised, allocIn, allocOut, edge_indices_list, tripleOut, files,
                   exportOut, datasetVars, arr>>

NextHyphen == AfterFirstHyphen

SpecHyphen == InitHyphen /\ [][NextHyphen]_vars

(***************************************************************************)
(* Properties of the global ID allocator.                                  *)
(***************************************************************************)
Allocated == pc \in {"allocated", "dumped"}

TypeIdx == 1..Len(entity_types)
ItemIdx(i) == 1..Len(entity_id_maps[i])
LocalAt(i, j) == entity_id_maps[i][j][2]
NameAt(i, j) == entity_id_maps[i][j][1]

\* Every local ID is smaller than the entry count of its type.
InRange == \A i \in TypeIdx : \A j \in ItemIdx(i) : LocalAt(i, j) < Len(entity_id_maps[i])

HasGlobal(i, j) ==
    /\ entity_types[i] \in DOMAIN global_id_map
    /\ LocalAt(i, j) \in DOMAIN global_id_map[entity_types[i]]

GlobalAt(i, j) == global_id_map[entity_types[i]][LocalAt(i, j)]

OffsetRule(i, j) ==
    /\ HasGlobal(i, j)
    /\ entity_types[i] \in DOMAIN offsets
    /\ GlobalAt(i, j) = offsets[entity_types[i]] + LocalAt(i, j)

TypeRule(i, j) ==
    /\ HasGlobal(i, j)
    /\ PyInt(GlobalAt(i, j)) \in DOMAIN type_map
    /\ type_map[PyInt(GlobalAt(i, j))] = entity_types[i]

\* C1 as stated: for every type T and local ID L of T's map, whatever the
\* non-negative local IDs are (dense or not), global_id_map[T][L] is
\* offsets[T] + L and type_map[global_id_map[T][L]] is T.
C1_AnyLocalIds ==
    Allocated => \A i \in TypeIdx : \A j \in ItemIdx(i) : OffsetRule(i, j) /\ TypeRule(i, j)

\* C1 amended: global_id_map[T][L] is offsets[T] + L for any local IDs, and
\* type_map[global_id_map[T][L]] is T when every local ID of every type is
\* smaller than the entry count of its type.
C1_OffsetAndType ==
    Allocated =>
        \A i \in TypeIdx : \A j \in ItemIdx(i) :
            OffsetRule(i, j) /\ (InRange => TypeRule(i, j))

C1_Witness ==
    /\ Allocated
    /\ InRange
    /\ \E i \in TypeIdx : \E j \in ItemIdx(i) :
           /\ offsets[entity_types[i]] >= 2
           /\ LocalAt(i, j) >= 1
           /\ type_map[PyInt(GlobalAt(i, j))] = entity_types[i]

Entries == {<<i, j>> : i \in TypeIdx, j \in 1..Len(NamePool)} \cap
           {e \in TypeIdx \X (1..Len(NamePool)) : e[2] \in ItemIdx(e[1])}

GlobalIdsUnique ==
    \A e, f \in Entries :
        e # f => GlobalAt(e[1], e[2]) # GlobalAt(f[1], f[2])

LocalIdsUnique ==
    \A i \in TypeIdx : \A j, k \in ItemIdx(i) :
        j # k => LocalAt(i, j) # LocalAt(i, k)

\* C2 as stated: the global IDs are pairwise distinct over all entries exactly
\* when the local IDs are pairwise distinct within each type, with no other
\* condition on the local IDs.
C2_UniqueIffLocalUnique == Allocated => (GlobalIdsUnique <=> LocalIdsUnique)

\* C2 amended: pairwise distinct global IDs imply pairwise distinct local IDs
\* within each type; the converse holds when every local ID is smaller than
\* the entry count of its type.
C2_UniqueIffLocalUniqueInRange ==
    Allocated =>
        /\ GlobalIdsUnique => LocalIdsUnique
        /\ (LocalIdsUnique /\ InRange) => GlobalIdsUnique

C2_Witness ==
    /\ Allocated
    /\ InRange
    /\ LocalIdsUnique
    /\ GlobalIdsUnique
    /\ \E i, k \in TypeIdx : i # k /\ Len(entity_id_maps[i]) >= 2 /\ Len(entity_id_maps[k]) >= 2

\* Resolving a global ID back to a type and a name, as make_hake_triples does.
RoundTrip(t, n, g) ==
    LET global_type == id_mapping_dir.global_type_map
        local_id == invert_nested_dict(id_mapping_dir.global_id)
        names == id_dict_map(id_mapping_dir.name2id)
    IN /\ HasNodeType(global_type, g)
       /\ NodeType(global_type, g) = t
       /\ HasNodeLocal(local_id, t, g)
       /\ HasNodeName(names, t, NodeLocal(local_id, t, g))
       /\ NodeName(names, t, NodeLocal(local_id, t, g)) = n

Bijective(i) ==
    \A j, k \in ItemIdx(i) :
        j # k => LocalAt(i, j) # LocalAt(i, k) /\ NameAt(i, j) # NameAt(i, k)

\* C3 as stated: every entity whose per-type name <-> local ID map is
\* bijective is resolved from its global ID back to its own type and name.
C3_RoundTripBijective ==
    pc = "dumped" =>
        \A i \in TypeIdx : \A j \in ItemIdx(i) :
            (Bijective(i) /\ entity_types[i] \in HakeTypes)
                => RoundTrip(entity_types[i], NameAt(i, j), GlobalAt(i, j))

\* C3 amended: the round trip recovers the type and the name of an entity
\* whose per-type map is bijective when, in addition, every local ID of every
\* type is smaller than the entry count of its type.
C3_RoundTripInRange ==
    pc = "dumped" =>
        \A i \in TypeIdx : \A j \in ItemIdx(i) :
            (Bijective(i) /\ InRange /\ entity_types[i] \in HakeTypes)
                => RoundTrip(entity_types[i], NameAt(i, j), GlobalAt(i, j))

C3_Witness ==
    /\ pc = "dumped"
    /\ InRange
    /\ \E i \in TypeIdx : \E j \in ItemIdx(i) :
           /\ Bijective(i)
           /\ entity_types[i] \in HakeTypes
           /\ i >= 2
           /\ LocalAt(i, j) = 1
           /\ j = 1
           /\ offsets[entity_types[i]] >= 1
           /\ RoundTrip(entity_types[i], NameAt(i, j), GlobalAt(i, j))

RECURSIVE CountBefore(_)
CountBefore(i) == IF i <= 1 THEN 0 ELSE CountBefore(i - 1) + Len(entity_id_maps[i - 1])

\* C4: the offset of the first type is 0, the offset of each following type is
\* the offset of the type before it plus that type's entry count, so offsets
\* never decrease along the list and offsets[T] is the sum of the entry counts
\* of the types before T.
C4_OffsetsAccumulate ==
    Allocated =>
        /\ offsets[entity_types[1]] = 0
        /\ \A i \in TypeIdx :
               /\ offsets[entity_types[i]] = CountBefore(i)
               /\ i > 1 => /\ offsets[entity_types[i]] =
                                offsets[entity_types[i - 1]] + Len(entity_id_maps[i - 1])
                           /\ offsets[entity_types[i]] >= offsets[entity_types[i - 1]]

C4_Witness ==
    /\ Allocated
    /\ Len(entity_types) = 3
    /\ Len(entity_id_maps[1]) = 2
    /\ Len(entity_id_maps[2]) = 1
    /\ offsets[entity_types[3]] = 3
    /\ \E j \in ItemIdx(1) : LocalAt(1, j) >= Len(entity_id_maps[1])
(***************************************************************************)
(* Properties of the triple builder.                                       *)
(***************************************************************************)
RelIdx == 1..Len(edge_indices_list)
NumEdges(k) == Len(edge_indices_list[k].edge_index[1])

RECURSIVE EdgesBefore(_)
EdgesBefore(k) == IF k <= 1 THEN 0 ELSE EdgesBefore(k - 1) + NumEdges(k - 1)

\* The triple of the i-th edge of the k-th relation.
TripleOfEdge(k, i) ==
    LET rel == edge_indices_list[k]
    IN <<global_id_map[rel.head_type][rel.edge_index[1][i]],
         rel.relation,
         global_id_map[rel.tail_type][rel.edge_index[2][i]]>>

TriplesReturned == pc = "triples" /\ raised = "no"

\* C6: build_global_triples returns one triple per input edge,
\* (entity2global[head_type][h], relation, entity2global[tail_type][t]), the
\* i-th edge of the k-th relation at position (edges of the relations before
\* k) + i: nothing dropped, duplicated or reordered.
C6_TriplesInInputOrder ==
    TriplesReturned =>
        /\ Len(global_triples) = EdgesBefore(Len(edge_indices_list) + 1)
        /\ \A k \in RelIdx : \A i \in 1..NumEdges(k) :
               global_triples[EdgesBefore(k) + i] = TripleOfEdge(k, i)

C6_Witness ==
    /\ TriplesReturned
    /\ Len(edge_indices_list) = 2
    /\ edge_indices_list[1].relation # edge_indices_list[2].relation
    /\ NumEdges(1) = 2
    /\ NumEdges(2) = 1
    /\ TripleOfEdge(1, 1) # TripleOfEdge(1, 2)
    /\ global_triples[3] = TripleOfEdge(2, 1)

\* The group of a triple: the types build_global_id_map gave its head and tail.
GroupOf(tr) == <<type_map[PyInt(tr[1])], tr[2], type_map[PyInt(tr[3])]>>

\* The (h, t) pairs of the triples of group `key`, in input order.
RECURSIVE PairsOf(_, _)
PairsOf(trs, key) ==
    IF trs = <<>> THEN <<>>
    ELSE (IF GroupOf(Head(trs)) = key THEN <<<<Head(trs)[1], Head(trs)[3]>>>> ELSE <<>>)
         \o PairsOf(Tail(trs), key)

GroupedByType ==
    /\ raised = "no"
    /\ DOMAIN edge_dict = {GroupOf(global_triples[i]) : i \in 1..Len(global_triples)}
    /\ \A key \in DOMAIN edge_dict : edge_dict[key] = PairsOf(global_triples, key)
    /\ \A key \in DOMAIN edge_dict : data[key] = EdgeIndexOf(edge_dict[key])

\* C5: given the triples of build_global_triples and the type_map of
\* build_global_id_map of the same run, build_hetero_graph puts every triple
\* (h, r, t) as the pair (h, t) in the one group keyed (type of h, r, type of
\* t), all triples are placed, and a group keeps the input order.
C5_GroupedByType == pc = "hetero" => GroupedByType

\* The same grouping, for a type_map that was written to JSON and loaded back.
GroupedByTypeWhenLoaded == pc = "hetero_loaded" => GroupedByType

(***************************************************************************)
(* Properties of the two exporters.                                        *)
(***************************************************************************)
\* The edges behind global_triples.json, as local (head, tail) IDs.
EdgeIdx == 1..Len(edge_indices_list[1].edge_index[1])
SrcId(i) == edge_indices_list[1].edge_index[1][i]
DstId(i) == edge_indices_list[1].edge_index[2][i]

\* The local IDs a mapping file has a name for.
IdsOf(file) == {file.value[k][2] : k \in 1..Len(file.value)}
NameOfId(file, id) == file.value[CHOOSE k \in 1..Len(file.value) : file.value[k][2] = id][1]

CompanyFile == id_mapping_dir.name2id["company"]
SymbolFile == id_mapping_dir.name2id["stock_symbol"]

Unresolvable(i) == SrcId(i) \notin IdsOf(CompanyFile) \/ DstId(i) \notin IdsOf(SymbolFile)

\* The statement of edge i.
StatementOf(i) ==
    <<URIRef(COMPANY, quote(NameOfId(CompanyFile, SrcId(i)))), HAS_SYMBOL,
      URIRef(SYMBOL, quote(NameOfId(SymbolFile, DstId(i))))>>

TablesLoaded == ~CompanyFile.none /\ ~SymbolFile.none
TensorLoaded == ~edge_index_dir.comp2sym.none

\* C7: name resolution for the embedding dataset is all-or-nothing: when some
\* triple's head or tail local ID has no name in its type's table, whatever
\* its position, make_hake_triples returns no triple list (and else the names
\* of every triple); the RDF exporter, on the same edges and tables, drops
\* only the unresolvable edges and keeps every other one.
C7_AbortVersusSkip ==
    (pc = "exported" /\ TablesLoaded) =>
        /\ raised = "no"
        /\ (\E i \in EdgeIdx : Unresolvable(i)) => hake_triples = None
        /\ (\A i \in EdgeIdx : ~Unresolvable(i)) =>
               /\ ~hake_triples.none
               /\ hake_triples.value =
                      [i \in EdgeIdx |-> <<NameOfId(CompanyFile, SrcId(i)), "hasSymbol",
                                           NameOfId(SymbolFile, DstId(i))>>]
        /\ TensorLoaded =>
               /\ \A i \in EdgeIdx : ~Unresolvable(i) => StatementOf(i) \in graph
               /\ count = Cardinality({i \in EdgeIdx : ~Unresolvable(i)})

C7_Witness ==
    /\ pc = "exported"
    /\ TablesLoaded
    /\ TensorLoaded
    /\ Len(edge_indices_list[1].edge_index[1]) = 3
    /\ ~Unresolvable(1)
    /\ ~Unresolvable(2)
    /\ Unresolvable(3)
    /\ hake_triples = None
    /\ count = 2
    /\ StatementOf(1) \in graph

\* C8: add_edges_from_tensor adds, for every edge with its source ID in the
\* source mapping and its destination ID in the destination mapping, the
\* statement (source URI, predicate, destination URI); any other edge adds
\* nothing and raises nothing; the count returned is the number of edges with
\* both endpoints present; no other statement is added.
C8_EdgesAddedOrSkipped ==
    pc = "edges_added" =>
        LET before == AddAllNodes({}, id_mapping_dir, 1)
            kept == IF TensorLoaded THEN {i \in EdgeIdx : ~Unresolvable(i)} ELSE {}
        IN /\ raised = "no"
           /\ graph = before \cup {StatementOf(i) : i \in kept}
           /\ count = Cardinality(kept)

C8_Witness ==
    /\ pc = "edges_added"
    /\ TensorLoaded
    /\ Len(edge_indices_list[1].edge_index[1]) = 3
    /\ Unresolvable(1)
    /\ ~Unresolvable(2)
    /\ ~Unresolvable(3)
    /\ StatementOf(2) # StatementOf(3)
    /\ count = 2
    /\ StatementOf(3) \in graph

(***************************************************************************)
(* Properties of the embedding-dataset exporter.                           *)
(***************************************************************************)
\* a before b in lexicographic order: at the first position where they differ
\* a has the smaller code point, or a ends there and b does not.
LexBefore(a, b) ==
    \E p \in 1..(Len(b)) :
        /\ \A q \in 1..(p - 1) : q <= Len(a) /\ a[q] = b[q]
        /\ \/ p = Len(a) + 1
           \/ p <= Len(a) /\ ord(a[p]) < ord(b[p])

HeadsAndTails ==
    {triples[i][1] : i \in 1..Len(triples)} \cup {triples[i][3] : i \in 1..Len(triples)}

RelationsUsed == {triples[i][2] : i \in 1..Len(triples)}

\* `lines` gives the texts of `names` the IDs 0..n-1, one line each, in
\* increasing lexicographic order.
DenseSortedIds(lines, names) ==
    /\ Len(lines) = Cardinality(names)
    /\ \E f \in [1..Len(lines) -> names] :
           /\ \A k \in 1..Len(lines) : lines[k] = str(k - 1) \o <<TAB>> \o f[k]
           /\ \A k, l \in 1..Len(lines) : k < l => LexBefore(f[k], f[l])
           /\ \A n \in names : \E k \in 1..Len(lines) : f[k] = n

\* C9: make_hake_dataset gives the distinct head and tail names the IDs
\* 0..n-1 in lexicographic order, one line of entities.dict per name, does the
\* same for the relation names in relations.dict, and writes one line of
\* train.txt per input triple, in input order, repeated triples included.
C9_DenseSortedIdsAndAllTriples ==
    pc = "dataset" =>
        /\ DenseSortedIds(out_dir.entities_dict, HeadsAndTails)
        /\ DenseSortedIds(out_dir.relations_dict, RelationsUsed)
        /\ Len(out_dir.train_txt) = Len(triples)
        /\ \A i \in 1..Len(triples) :
               out_dir.train_txt[i] =
                   triples[i][1] \o <<TAB>> \o triples[i][2] \o <<TAB>> \o triples[i][3]

C9_Witness ==
    /\ pc = "dataset"
    /\ Len(triples) = 3
    /\ triples[1] = triples[3]
    /\ triples[1] # triples[2]
    /\ Cardinality(HeadsAndTails) = 3
    /\ Cardinality(RelationsUsed) = 2
    /\ Len(out_dir.entities_dict) = 3
    /\ Len(out_dir.train_txt) = 3

(***************************************************************************)
(* Properties of the name-extraction helpers.                              *)
(***************************************************************************)
\* The records of the cell, once a stringified cell is parsed.
CellRecords ==
    LET v == IF Kind(arr) = "str" /\ pc # "officer_names"
             THEN (IF LiteralOf(arr).none THEN PNone ELSE LiteralOf(arr).value)
             ELSE arr
    IN IF Kind(v) \in {"list", "ndarray"} THEN Val(v) ELSE <<>>

\* A record the helper can take a name from: a mapping with a string under key.
WellFormed(o, key) ==
    Kind(o) = "dict" /\ key \in DOMAIN Val(o) /\ Kind(Val(o)[key]) = "str"

KeyOfHelper == IF pc = "officer_names" THEN "name" ELSE "Holder"

Extracted == pc \in {"officer_names", "institution_names", "mutualfund_names"}

\* C10: the name-extraction helpers never raise on a malformed cell value:
\* they return one entry per well-formed record, skip the rest, and return an
\* empty list when nothing can be extracted.
C10_NeverRaise ==
    Extracted =>
        /\ raised = "no"
        /\ Len(results) =
               Cardinality({i \in 1..Len(CellRecords) : WellFormed(CellRecords[i], KeyOfHelper)})

(***************************************************************************)
(* Properties of after_first_hyphen.                                       *)
(***************************************************************************)
HyphenDone == pc = "after_first_hyphen"

\* The text after the first hyphen, stripped.
AfterText(text) == strip(SubSeq(text, FirstHyphen(text, 1) + 1, Len(text)))

\* A text without hyphen comes back as it is, and a text no rule matches
\* gives the text after its first hyphen.
NoRuleCases ==
    HyphenDone =>
        /\ (AppliedRule(Val(arr)) = 0 => results[1] = Val(arr))
        /\ (AppliedRule(Val(arr)) = 6 => results[1] = AfterText(Val(arr)))

\* The prefix of number k is recognized for some input prefix-suffix.
Recognized(k) ==
    \E suffix \in Suffixes : AppliedRule(HardCodedPrefixes[k] \o <<"-">> \o suffix) = k

\* C11: after_first_hyphen returns a string with no hyphen unchanged; an input
\* matching no rule yields only the text after the first hyphen; and each of
\* the four hard-coded prefixes P is recognized for some input P-suffix, that
\* is, P's rule is the one applied to it.
C11_EveryPrefixRecognized ==
    /\ NoRuleCases
    /\ HyphenDone => \A k \in 1..Len(HardCodedPrefixes) : Recognized(k)

\* What the code does: the prefixes without a hyphen of their own are
\* recognized, and the rule of 'TIAA-CREF Funds' is applied to no input.
RecognizedExceptTiaaCref ==
    /\ NoRuleCases
    /\ HyphenDone => Recognized(1) /\ Recognized(3) /\ Recognized(4)
    /\ HyphenDone => AppliedRule(Val(arr)) # 2

\* An input 'TIAA-CREF Funds-suffix' has been handled by the final else.
TiaaCrefFallsThrough ==
    /\ HyphenDone
    /\ startswith(Val(arr), HardCodedPrefixes[2] \o <<"-">>)
    /\ AppliedRule(Val(arr)) = 6
    /\ results[1] = AfterText(Val(arr))


====
